---- MODULE Spec2Model ----
(***************************************************************************)
(* Model of the ingestion pipeline of gillopy/economics_agent:             *)
(* DataIngestion.ingest_file, DataIngestion.ingest_text,                   *)
(* DataIngestion.list_ingested_files (src/src/models/ingestion.py), the    *)
(* helper save_json_file (src/src/utils/helpers.py) and the VectorHandler  *)
(* calls they make (src/src/tools/vector_tools.py).                        *)
(*                                                                         *)
(* Every call of ingest_file / ingest_text is a process whose position     *)
(* (pc) walks through the statements of the method that touch the file     *)
(* system, so that calls can follow one another or interleave.  The three  *)
(* storage directories RAW_DATA_DIR, PROCESSED_DATA_DIR and VECTORS_DIR    *)
(* are functions from file names to file contents.  A file name is the     *)
(* sequence of the pieces the code concatenates into it.                   *)
(*                                                                         *)
(* Two further specifications share the module: SpecMemory, the            *)
(* AgentMemory object of src/src/models/memory.py and its files, and       *)
(* SpecVectors, the tools vectorize_and_save and search_in_vectors of      *)
(* src/src/tools/vector_tools.py with the text splitter of the handler.    *)
(* Each specification leaves the variables of the other two as they are.   *)
(***************************************************************************)
EXTENDS Integers, Sequences, FiniteSets, TLC

\* ------------------------------------------------------------------ bounds
\* Number of ingest_file / ingest_text calls made, one after the other.
MaxCalls == 2
\* Last value of the wall clock (seconds), which only moves forward.
MaxTime == 1
\* Number of failures of the environment (a disk or permission error, a reader
\* or the embedding model failing) in one behaviour.
MaxFaults == 1

Calls == 1..MaxCalls

\* ------------------------------------------------------- values and inputs
\* uuid.uuid4(): the n-th identifier generated (collisions are not modelled).
UUIDS == <<"u1", "u2", "u3", "u4", "u5", "u6">>
\* datetime.now().strftime("%Y%m%d_%H%M%S") at each second of the clock.
TIMES == <<"t0", "t1", "t2", "t3">>

NoId == "-"
None == "None"

\* config.py: the keys of SUPPORTED_FILE_TYPES.
SUPPORTED_FILE_TYPES == {"csv", "pdf", "txt", "json"}

\* Paths handed to ingest_file; gone.pdf names no file.
Paths == {"notes.TXT", "data.csv", "tool.exe", "gone.pdf"}
\* file_type arguments handed to ingest_file (None: infer from the extension).
DeclaredTypes == {None, "json", "TXT"}
\* Arguments handed to ingest_text.
Texts == {"alpha", "  "}
SourceNames == {"notes"}

\* The paths that name no file.
MissingPaths == {"gone.pdf"}

\* Variant of exists: the check of line 36 left out.
exists_unchecked(path) == TRUE

\* os.path.exists(file_path)
exists(path) == path \notin MissingPaths

\* os.path.splitext(file_path)[1], the leading dot stripped
splitext(path) ==
    CASE path = "notes.TXT" -> "TXT"
      [] path = "data.csv"  -> "csv"
      [] path = "tool.exe"  -> "exe"
      [] path = "gone.pdf"  -> "pdf"

\* str.lower() on the extensions above
lower(s) == IF s = "TXT" THEN "txt" ELSE s

\* str.strip() == "" on the texts above
IsBlank(s) == s \in {"", "  "}

\* ------------------------------------------------------------- file names
\* RAW_DATA_DIR / f"{file_id}_{file_name}"                    (ingest_file)
raw_name_of_file(file_id, file_name) == <<file_id, "_", file_name>>
\* RAW_DATA_DIR / f"{source_name}_{timestamp}.txt"            (ingest_text)
raw_name_of_text(source_name, timestamp) == <<source_name, "_", timestamp, ".txt">>
\* PROCESSED_DATA_DIR / f"{id}.json"
processed_name(id) == <<id, ".json">>
\* Variant of vector_dir_of: one directory for the indexes of all items.
vector_dir_shared(id) == <<"index">>

\* VECTORS_DIR / id
vector_dir_of(id) == <<id>>
NoName == <<>>

\* file_name.endswith('.json')
endswith_json(name) == Len(name) > 0 /\ name[Len(name)] = ".json"

\* ---------------------------------------------------------------- content
\* What _process_file returns: a str, a list (all of whose items are str, or
\* not), or a JSON object.  texts holds the strings of a str or of a list of
\* str.
Content(kind, allStr, texts) == [kind |-> kind, allStr |-> allStr, texts |-> texts]
NoContent == Content("none", FALSE, <<>>)

\* Values the reader of each type returns (the bytes of the source files are
\* not modelled).  csv: the list of the rows as dicts, which is [] for a file
\* without rows; pdf: the list of the page texts; txt: the text; json: whatever
\* the file holds, here an object or a list of strings.
reader_values(file_type) ==
    CASE file_type = "csv"  -> {Content("list", FALSE, <<>>),
                                Content("list", TRUE, <<>>)}
      [] file_type = "pdf"  -> {Content("list", TRUE, <<"alpha", "  ">>),
                                Content("list", TRUE, <<>>)}
      [] file_type = "txt"  -> {Content("str", TRUE, <<"alpha">>),
                                Content("str", TRUE, <<"  ">>)}
      [] file_type = "json" -> {Content("object", FALSE, <<>>),
                                Content("list", TRUE, <<"alpha", "  ">>)}

\* The exception a failing reader raises: FileHandler wraps every failure of
\* read_csv, read_pdf and load_from_json in ValueError; the txt branch lets the
\* error of open()/read() through.
reader_exception(file_type) ==
    IF file_type = "txt" THEN "UnicodeDecodeError" ELSE "ValueError"

\* Variant of process_file_failure: the error is caught and None is returned.
process_file_failure_caught(file_type) ==
    [raises |-> FALSE, exc |-> "-", content |-> NoContent]

\* _process_file when the reader fails: the exception leaves _process_file
\* and ingest_file; nothing is returned.
process_file_failure(file_type) ==
    [raises |-> TRUE, exc |-> reader_exception(file_type), content |-> NoContent]

\* Variant of is_text_content: the items of a list are not looked at.
is_text_content_any_list(content) == content.kind \in {"str", "list"}

\* isinstance(content, str) or (isinstance(content, list) and all(isinstance(item, str) ...))
is_text_content(content) ==
    \/ content.kind = "str"
    \/ content.kind = "list" /\ content.allStr

\* --------------------------------------------------------------- metadata
Metadata(key, id, name, raw, processed, ftype, vdir) ==
    [id_key |-> key, id |-> id, name |-> name, raw_file_path |-> raw,
     processed_file_path |-> processed, file_type |-> ftype, vector_dir |-> vdir]
NoMeta == Metadata("-", NoId, "-", NoName, NoName, "-", NoName)

\* The file written by save_json_file, or any other file of the directory:
\* fmt is what json.load makes of it ("dict", "list"; "garbage" does not
\* parse, "unreadable" cannot be opened); has_key is the value of
\* `"metadata" in data`.
Record(fmt, has_key, metadata, content) ==
    [fmt |-> fmt, has_key |-> has_key, metadata |-> metadata, content |-> content]

\* ------------------------------------------------ ingest_file, lines 39-49
\* Variant of resolve_file_type: the extension is not lower-cased.
resolve_file_type_as_written(path, declared) ==
    LET file_type == IF declared = None THEN splitext(path) ELSE declared
    IN  [ok |-> file_type \in SUPPORTED_FILE_TYPES, file_type |-> file_type]

\* The type ingest_file goes on with, or the ValueError it raises.
resolve_file_type(path, declared) ==
    IF declared = None
    THEN LET file_extension == lower(splitext(path))
         IN  IF file_extension \in SUPPORTED_FILE_TYPES
             THEN [ok |-> TRUE, file_type |-> file_extension]
             ELSE [ok |-> FALSE, file_type |-> file_extension]
    ELSE IF declared \notin SUPPORTED_FILE_TYPES
         THEN [ok |-> FALSE, file_type |-> declared]
         ELSE [ok |-> TRUE, file_type |-> declared]

\* ------------------------------------------------------------------ state
VARIABLES
    calls,      \* the ingest_file / ingest_text calls: position and locals
    raw,        \* RAW_DATA_DIR: file name -> bytes
    processed,  \* PROCESSED_DATA_DIR: file name -> Record
    vectors,    \* VECTORS_DIR: directory name -> index
    next_uuid,  \* how many uuid4() values have been drawn
    now,        \* the wall clock when it was last read, in seconds
    listed,     \* what list_ingested_files() returned, if it was the last step
    logged,     \* the records reported to a log as skipped
    faults      \* how many times the environment has failed

ingestion_vars == <<calls, raw, processed, vectors, next_uuid, now, listed, logged, faults>>

\* An AgentMemory object (src/src/models/memory.py) and the files it is saved
\* to and loaded from.
VARIABLES
    history,       \* self.history: the list of MemoryItem
    chat_memory,   \* self.memory.chat_memory: the messages of the buffer
    memory_files,  \* the memory files on disk: path -> file
    clock,         \* datetime.now() when it was last read
    answer         \* the last AgentMemory call: what it was and how it ended

memory_vars == <<history, chat_memory, memory_files, clock, answer>>

\* The vector tools (src/src/tools/vector_tools.py): the module-level handler
\* and the index directories the tools write and read.
VARIABLES
    vector_handler,  \* _vector_handler, the VectorHandler get_vector_handler keeps
    stores,          \* the index directories on disk: path -> directory
    chunk_log,       \* the texts the splitter was given, each with its chunks
    reply,           \* the last call of a vector tool: what it was and how it ended
    agent_config     \* src/src/config.py: the module's settings and the AgentConfig made from them

vector_vars == <<vector_handler, stores, chunk_log, reply, agent_config>>

vars == <<ingestion_vars, memory_vars, vector_vars>>

\* No AgentMemory call has been made.
NoAnswer ==
    [op |-> "-", status |-> "-", exc |-> "-", args |-> <<>>, k |-> 0, result |-> <<>>]

\* No vector tool has been called.
NoReply ==
    [op |-> "-", status |-> "-", exc |-> "-", texts |-> <<>>, query |-> <<>>,
     dir |-> "-", k |-> 0, fail_at |-> 0, index_queried |-> FALSE,
     resplit |-> FALSE, value |-> <<>>]

\* _vector_handler = None (line 56): no handler has been made yet.
NoHandler == [created |-> FALSE, chunk_size |-> 0, chunk_overlap |-> 0, leftover |-> <<>>]

\* AgentMemory.__init__ line 44 for a buffer memory: both stores are empty.
\* config.py before it is imported: no setting read, no AgentConfig made.
NoConfig == [module |-> "unloaded", exc |-> "-", CHUNK_SIZE |-> 0, CHUNK_OVERLAP |-> 0,
             instance |-> FALSE, chunk_size |-> 0, chunk_overlap |-> 0]

memory_new ==
    /\ history = <<>>
    /\ chat_memory = <<>>

Idle ==
    [op |-> "none", pc |-> "idle", name |-> "-", declared |-> "-",
     file_type |-> "-", id |-> NoId, raw_name |-> NoName, data |-> "-",
     content |-> NoContent, metadata |-> NoMeta, ndocs |-> 0,
     saved |-> "-", status |-> "running", exc |-> "-", at |-> "-"]

\* The call has ended: its locals are gone; what is left is its outcome (the
\* exception, or the metadata returned) and, for the properties, the id it
\* drew, the raw name it used, and what became of its record.
Raised(call, exc, at) ==
    [call EXCEPT !.pc = "done", !.status = "raised", !.exc = exc, !.at = at,
                 !.file_type = "-", !.data = "-", !.content = NoContent,
                 !.metadata = NoMeta, !.ndocs = 0]
Returned(call, metadata) ==
    [call EXCEPT !.pc = "done", !.status = "returned", !.metadata = metadata,
                 !.file_type = "-", !.data = "-", !.content = NoContent,
                 !.ndocs = 0]

\* A directory with one file written (created or overwritten).
Write(dir, name, bytes) == (name :> bytes) @@ dir

\* A data directory that already holds files when the program starts: the
\* record of an earlier ingestion, a copy of it under a name that does not end
\* in .json, and .json files that are not records.
OldMeta == Metadata("file_id", "u0", "old.csv", <<"u0", "_", "old.csv">>,
                    <<"u0", ".json">>, "csv", NoName)
OldRecord == Record("dict", TRUE, OldMeta, Content("records", FALSE, <<>>))
EmptyDir == [n \in {} |-> 0]
UsedDir ==
    (<<"u0", ".json">> :> OldRecord)
    @@ (<<"u0", ".json", ".bak">> :> OldRecord)
    @@ (<<"bad", ".json">> :> Record("garbage", FALSE, NoMeta, NoContent))
    @@ (<<"locked", ".json">> :> Record("unreadable", FALSE, NoMeta, NoContent))
    @@ (<<"empty", ".json">> :> Record("dict", FALSE, NoMeta, NoContent))
    @@ (<<"array", ".json">> :> Record("list", TRUE, NoMeta, NoContent))
InitialProcessedDirs == {EmptyDir, UsedDir}

NotListed == [status |-> "-", files |-> {}]

Init ==
    /\ calls = [c \in Calls |-> Idle]
    /\ raw = EmptyDir
    /\ processed \in InitialProcessedDirs
    /\ vectors = EmptyDir
    /\ next_uuid = 0
    /\ now = 0
    /\ listed = NotListed
    /\ logged = {}
    /\ faults = 0
    /\ memory_new
    /\ memory_files = EmptyDir
    /\ clock = 0
    /\ answer = NoAnswer
    /\ vector_handler = NoHandler
    /\ stores = EmptyDir
    /\ chunk_log = {}
    /\ agent_config = NoConfig
    /\ reply = NoReply

\* ---------------------------------------------------------------- helpers
\* uuid.uuid4() for the n-th time
uuid4(n) == UUIDS[n]
\* datetime.now().strftime(...) at second t
strftime(t) == TIMES[t + 1]

\* The program is single-threaded: a call is made when the one before it has
\* ended.
MayStart(c) == calls[c].pc = "idle" /\ (IF c = 1 THEN TRUE ELSE calls[c - 1].pc = "done")

\* helpers.save_json_file: what the directory holds afterwards.  "ok": the
\* record is written; "lost": makedirs or open failed, nothing is written;
\* "partial": json.dump failed after open(file_path, 'w') created the file.
\* Every exception is caught (the function then returns False).
SaveOutcomes == {"ok", "lost", "partial"}
save_json_file(dir, data, name, outcome) ==
    CASE outcome = "ok"      -> Write(dir, name, data)
      [] outcome = "lost"    -> dir
      [] outcome = "partial" -> Write(dir, name, Record("garbage", FALSE, NoMeta, NoContent))

\* RecursiveCharacterTextSplitter.create_documents on texts that are all
\* shorter than chunk_size: one document per text that is not blank.
RECURSIVE create_documents(_)
create_documents(texts) ==
    IF texts = <<>> THEN 0
    ELSE (IF IsBlank(Head(texts)) THEN 0 ELSE 1) + create_documents(Tail(texts))

\* An index directory: ndocs embedded segments of item source_id; complete is
\* FALSE when save_local failed after the directory was made.
Index(ndocs, source_id, complete) ==
    [ndocs |-> ndocs, source_id |-> source_id, complete |-> complete]

\* Positional arguments save_vector_store takes (vector_store, directory), and
\* the number each caller passes.
save_vector_store_params == 2
ingest_file_save_args == 1
ingest_text_save_args == 2
save_args(op) == IF op = "file" THEN ingest_file_save_args ELSE ingest_text_save_args

\* ---------------------------------------------------------------- actions
\* ingest_file, lines 35-58: the checks, the id, the raw name.
ingest_file(c, path, declared) ==
    /\ MayStart(c)
    /\ LET r == resolve_file_type(path, declared)
           call == [calls[c] EXCEPT !.op = "file", !.name = path, !.declared = declared]
       IN  IF ~exists(path)
           THEN /\ calls' = [calls EXCEPT ![c] =
                       Raised([call EXCEPT !.declared = "-"], "FileNotFoundError", "exists")]
                /\ UNCHANGED next_uuid
           ELSE IF ~r.ok
           THEN /\ calls' = [calls EXCEPT ![c] = Raised(call, "ValueError", "type")]
                /\ UNCHANGED next_uuid
           ELSE /\ next_uuid' = next_uuid + 1
                /\ calls' = [calls EXCEPT ![c] =
                       [call EXCEPT !.pc = "copy", !.file_type = r.file_type,
                                    !.id = uuid4(next_uuid'), !.data = path,
                                    !.raw_name = raw_name_of_file(uuid4(next_uuid'), path)]]
    /\ listed' = NotListed
    /\ UNCHANGED <<raw, processed, vectors, now, logged, faults>>
    /\ UNCHANGED <<memory_vars, vector_vars>>

\* ingest_text line 134: the file_type of a text.
text_file_type == "text"

\* ingest_text, lines 115-123: the id, the raw name.  t is the clock at the
\* call: any second not before the last one read.
ingest_text(c, text, source_name, t) ==
    /\ MayStart(c)
    /\ t >= now
    /\ now' = t
    /\ next_uuid' = next_uuid + 1
    /\ calls' = [calls EXCEPT ![c] =
           [@ EXCEPT !.op = "text", !.pc = "copy", !.name = source_name,
                     !.id = uuid4(next_uuid'), !.data = text, !.file_type = text_file_type,
                     !.raw_name = raw_name_of_text(source_name, strftime(t))]]
    /\ listed' = NotListed
    /\ UNCHANGED <<raw, processed, vectors, logged, faults>>
    /\ UNCHANGED <<memory_vars, vector_vars>>

\* The environment fails once more, if it still may.
Fault == faults < MaxFaults /\ faults' = faults + 1
NoFault == UNCHANGED faults

\* ingest_file lines 59-60 (shutil.copy2), ingest_text lines 124-125 (write).
\* Variant of write_raw: the step is left out.
write_raw_skipped(dir, name, data) == dir

\* shutil.copy2 (ingest_file lines 59-60) and open/write (ingest_text lines
\* 121-125): the raw file is in the directory.
write_raw(dir, name, data) == Write(dir, name, data)

copy_raw(c) ==
    /\ calls[c].pc = "copy"
    /\ LET call == [calls[c] EXCEPT !.declared = "-"]
       IN  \/ /\ NoFault
              /\ raw' = write_raw(raw, call.raw_name, call.data)
              /\ calls' = [calls EXCEPT ![c] =
                     IF call.op = "file"
                     THEN [call EXCEPT !.pc = "read"]
                     ELSE [call EXCEPT !.pc = "save",
                                       !.content = Content("str", TRUE, <<call.data>>)]]
           \/ /\ Fault
              /\ calls' = [calls EXCEPT ![c] = Raised(call, "OSError", "copy")]
              /\ UNCHANGED raw
    /\ listed' = NotListed
    /\ UNCHANGED <<processed, vectors, next_uuid, now, logged>>
    /\ UNCHANGED <<memory_vars, vector_vars>>

\* ingest_file line 63: _process_file.
process_file(c) ==
    /\ calls[c].pc = "read"
    /\ \/ /\ NoFault
          /\ \E v \in reader_values(calls[c].file_type) :
                calls' = [calls EXCEPT ![c] = [@ EXCEPT !.pc = "save", !.content = v]]
       \/ /\ Fault
          /\ LET r == process_file_failure(calls[c].file_type)
             IN  calls' = [calls EXCEPT ![c] =
                    IF r.raises THEN Raised(@, r.exc, "read")
                    ELSE [@ EXCEPT !.pc = "save", !.content = r.content, !.at = "read"]]
    /\ listed' = NotListed
    /\ UNCHANGED <<raw, processed, vectors, next_uuid, now, logged>>
    /\ UNCHANGED <<memory_vars, vector_vars>>

\* ingest_file lines 66-86 and 104, ingest_text lines 128-144: the metadata,
\* save_json_file (its result is not looked at), and for ingest_file the test
\* whether the content is text.
save_record(c) ==
    /\ calls[c].pc = "save"
    /\ LET call == calls[c]
           metadata == Metadata(IF call.op = "file" THEN "file_id" ELSE "text_id",
                                call.id, call.name, call.raw_name,
                                processed_name(call.id), call.file_type, NoName)
           processed_data == Record("dict", TRUE, metadata, call.content)
       IN  \E outcome \in SaveOutcomes :
             /\ IF outcome = "ok" THEN NoFault ELSE Fault
             /\ processed' = save_json_file(processed, processed_data,
                                            processed_name(call.id), outcome)
             /\ calls' = [calls EXCEPT ![c] =
                    IF call.op = "text" \/ is_text_content(call.content)
                    THEN [call EXCEPT !.pc = "vectorize", !.metadata = metadata,
                                      !.saved = outcome]
                    ELSE Returned([call EXCEPT !.saved = outcome], metadata)]
    /\ listed' = NotListed
    /\ UNCHANGED <<raw, vectors, next_uuid, now, logged>>
    /\ UNCHANGED <<memory_vars, vector_vars>>

\* VectorHandler.vectorize_texts (ingest_file line 98, ingest_text line 150):
\* FAISS.from_documents raises when the embedding model fails, and when there
\* is no document to embed.
vectorize_texts(c) ==
    /\ calls[c].pc = "vectorize"
    /\ LET documents == create_documents(calls[c].content.texts)
       IN  \/ /\ NoFault
              /\ calls' = [calls EXCEPT ![c] =
                     IF documents > 0
                     THEN [@ EXCEPT !.pc = "persist", !.ndocs = documents]
                     ELSE Raised(@, "IndexError", "vectorize")]
           \/ /\ Fault
              /\ calls' = [calls EXCEPT ![c] = Raised(@, "EmbeddingError", "vectorize")]
    /\ listed' = NotListed
    /\ UNCHANGED <<raw, processed, vectors, next_uuid, now, logged>>
    /\ UNCHANGED <<memory_vars, vector_vars>>

\* VectorHandler.save_vector_store (ingest_file line 99, ingest_text line 154)
\* and the lines after it: vector_dir is put in the metadata, which is returned.
\* "no_dir": os.makedirs failed; "no_index": save_local failed in the directory.
PersistOutcomes == {"ok", "no_dir", "no_index"}
\* Variant of save_vector_store_raises: the failure is caught, as in
\* save_json_file.
save_vector_store_catches(outcome) == FALSE

\* save_vector_store has no try: a failure of makedirs or save_local leaves it.
save_vector_store_raises(outcome) == outcome # "ok"
save_vector_store(c) ==
    /\ calls[c].pc = "persist"
    /\ LET call == calls[c]
           vector_dir == vector_dir_of(call.id)
       IN  IF save_args(call.op) # save_vector_store_params
           THEN /\ calls' = [calls EXCEPT ![c] = Raised(call, "TypeError", "persist")]
                /\ UNCHANGED <<vectors, faults>>
           ELSE \E outcome \in PersistOutcomes :
                  /\ IF outcome = "ok" THEN NoFault ELSE Fault
                  /\ vectors' =
                        CASE outcome = "ok" ->
                               Write(vectors, vector_dir, Index(call.ndocs, call.id, TRUE))
                          [] outcome = "no_dir" -> vectors
                          [] outcome = "no_index" ->
                               Write(vectors, vector_dir, Index(0, call.id, FALSE))
                  /\ calls' = [calls EXCEPT ![c] =
                        IF save_vector_store_raises(outcome)
                        THEN Raised(call, "OSError", "persist")
                        ELSE Returned([call EXCEPT !.at = IF outcome = "ok" THEN "-" ELSE "persist"],
                                      [call.metadata EXCEPT !.vector_dir = vector_dir])]
    /\ listed' = NotListed
    /\ UNCHANGED <<raw, processed, next_uuid, now, logged>>
    /\ UNCHANGED <<memory_vars, vector_vars>>

\* list_ingested_files, lines 189-200.  What the loop does with one file:
\* "append" its metadata, pass it by ("skip"), or leave the try block on an
\* exception ("except": open or json.load failed, or data is not a dict, so
\* that data["metadata"] raised).
scan(name, file) ==
    IF ~endswith_json(name) THEN "skip"
    ELSE IF file.fmt \in {"garbage", "unreadable"} THEN "except"
    ELSE IF ~file.has_key THEN "skip"
    ELSE IF file.fmt # "dict" THEN "except"
    ELSE "append"

\* lines 198-199: what the except clause does with an exception of the body.
except_clause(outcome) == IF outcome = "except" THEN "skip" ELSE outcome

files_listed(dir) ==
    {dir[n].metadata : n \in {m \in DOMAIN dir : except_clause(scan(m, dir[m])) = "append"}}

list_ingested_files ==
    /\ \A c \in Calls : calls[c].pc \in {"idle", "done"}
    /\ listed' =
          IF \E n \in DOMAIN processed : except_clause(scan(n, processed[n])) = "raise"
          THEN [status |-> "raised", files |-> {}]
          ELSE [status |-> "returned", files |-> files_listed(processed)]
    /\ UNCHANGED <<calls, raw, processed, vectors, next_uuid, now, logged, faults>>
    /\ UNCHANGED <<memory_vars, vector_vars>>

Next ==
    \/ \E c \in Calls, path \in Paths, declared \in DeclaredTypes : ingest_file(c, path, declared)
    \/ \E c \in Calls, text \in Texts, source_name \in SourceNames, t \in 0..MaxTime :
          ingest_text(c, text, source_name, t)
    \/ \E c \in Calls : copy_raw(c)
    \/ \E c \in Calls : process_file(c)
    \/ \E c \in Calls : save_record(c)
    \/ \E c \in Calls : vectorize_texts(c)
    \/ \E c \in Calls : save_vector_store(c)
    \/ list_ingested_files

Spec == Init /\ [][Next]_vars

\* ------------------------------------------------------------- properties
\* What a call of list_ingested_files() made in the current state returns.
ListNow == files_listed(processed)
Lists(id) == \E m \in ListNow : m.id = id

\* A directory holds a complete index of at least one segment of item id.
IndexPersisted(id) ==
    /\ <<id>> \in DOMAIN vectors
    /\ vectors[<<id>>].complete
    /\ vectors[<<id>>].ndocs >= 1
    /\ vectors[<<id>>].source_id = id

\* C1: when embedding or index persistence fails in ingest_file on text
\* content, ingest_file still returns the metadata, without vector_dir, and
\* list() includes the item.
C1_EmbedFailureNotFatal ==
    \A c \in Calls :
        (calls[c].op = "file" /\ calls[c].at \in {"vectorize", "persist"})
        => /\ calls[c].status = "returned"
           /\ calls[c].metadata.vector_dir = NoName
           /\ Lists(calls[c].id)

\* C2: an item returned by ingest_file or ingest_text carries vector_dir if and
\* only if an index of at least one embedded segment of the item was persisted
\* at VECTORS_DIR/<id>; the vector_dir it carries is that directory.
C2_VectorDirIffIndexPersisted ==
    \A c \in Calls :
        calls[c].status = "returned"
        => /\ (calls[c].metadata.vector_dir # NoName) <=> IndexPersisted(calls[c].id)
           /\ calls[c].metadata.vector_dir \in {NoName, <<calls[c].id>>}

C2_Witness ==
    \E c, d \in Calls :
        /\ calls[c].op = "file" /\ calls[c].status = "returned"
        /\ calls[c].metadata.vector_dir = NoName
        /\ calls[d].op = "text" /\ calls[d].status = "returned"
        /\ calls[d].metadata.vector_dir = <<calls[d].id>>
        /\ IndexPersisted(calls[d].id)

\* C3: when the reader fails in ingest_file, the call raises the reader's
\* error, no processed record and no vector directory exist for the id, the
\* raw copy made before the read is in raw storage, and list() does not
\* include the item.
C3_ReadFailureAborts ==
    \A c \in Calls :
        (calls[c].op = "file" /\ calls[c].at = "read")
        => /\ calls[c].pc = "done" /\ calls[c].status = "raised"
           /\ calls[c].exc \in {"ValueError", "UnicodeDecodeError"}
           /\ processed_name(calls[c].id) \notin DOMAIN processed
           /\ vector_dir_of(calls[c].id) \notin DOMAIN vectors
           /\ calls[c].raw_name \in DOMAIN raw
           /\ raw[calls[c].raw_name] = calls[c].name
           /\ ~Lists(calls[c].id)

C3_Witness ==
    \E c \in Calls :
        /\ calls[c].op = "file" /\ calls[c].at = "read"
        /\ calls[c].raw_name \in DOMAIN raw
        /\ listed.status = "returned"

\* C4: a step in which ingest_file is called with a path that does not exist
\* ends the call with FileNotFoundError and leaves the three directories, and
\* so what list() returns, as they were.
C4_MissingPathChangesNothing ==
    [][\A c \in Calls :
          (calls[c].pc = "idle" /\ calls'[c].op = "file" /\ calls'[c].name \in MissingPaths)
          => /\ calls'[c].pc = "done" /\ calls'[c].status = "raised"
             /\ calls'[c].exc = "FileNotFoundError"
             /\ calls'[c].id = NoId
             /\ raw' = raw /\ processed' = processed /\ vectors' = vectors
             /\ files_listed(processed') = files_listed(processed)]_vars

C4_Witness ==
    \E c \in Calls :
        /\ calls[c].op = "file" /\ calls[c].name \in MissingPaths
        /\ calls[c].exc = "FileNotFoundError"
        /\ ListNow # {}

\* C5: ingest_file goes on with the declared type when one is given and with
\* the lower-cased extension otherwise; when that type is not supported the
\* call raises ValueError and has drawn no id and named no file.
C5_TypeResolution ==
    \A c \in Calls :
        (calls[c].op = "file" /\ calls[c].declared # "-")
        => LET resolved == IF calls[c].declared # None THEN calls[c].declared
                           ELSE lower(splitext(calls[c].name))
           IN  IF resolved \in SUPPORTED_FILE_TYPES
               THEN calls[c].pc = "copy" /\ calls[c].file_type = resolved
                    /\ calls[c].id # NoId
               ELSE calls[c].pc = "done" /\ calls[c].status = "raised"
                    /\ calls[c].exc = "ValueError"
                    /\ calls[c].id = NoId /\ calls[c].raw_name = NoName

C5_Witness ==
    \E c, d \in Calls :
        /\ calls[c].op = "file" /\ calls[c].declared = "TXT" /\ calls[c].exc = "ValueError"
        /\ calls[d].op = "file" /\ calls[d].name = "notes.TXT" /\ calls[d].declared = None
        /\ calls[d].pc = "copy" /\ calls[d].file_type = "txt"

\* The call has written its raw copy.
WroteRaw(c) ==
    calls[c].id # NoId /\ calls[c].pc # "copy" /\ calls[c].at # "copy"

\* C6: two calls with different ids write different files for the raw copy, the
\* processed record and the vector directory.
C6_DisjointPaths ==
    \A c, d \in Calls :
        (c # d /\ WroteRaw(c) /\ WroteRaw(d) /\ calls[c].id # calls[d].id)
        => /\ calls[c].raw_name # calls[d].raw_name
           /\ processed_name(calls[c].id) # processed_name(calls[d].id)
           /\ vector_dir_of(calls[c].id) # vector_dir_of(calls[d].id)

\* The name holds the id as one of its pieces.
NameHolds(name, id) == \E i \in 1..Len(name) : name[i] = id

\* C7: the id of an item joins its artefacts: the record is at
\* PROCESSED_DATA_DIR/<id>.json and carries the id in its metadata, the name
\* of the raw copy holds the id, and an index of the item is at
\* VECTORS_DIR/<id>.
C7_IdJoinsArtefacts ==
    \A c \in Calls :
        (calls[c].id # NoId /\ calls[c].saved = "ok")
        => /\ processed_name(calls[c].id) \in DOMAIN processed
           /\ processed[processed_name(calls[c].id)].metadata.id = calls[c].id
           /\ NameHolds(calls[c].raw_name, calls[c].id)
           /\ \A v \in DOMAIN vectors :
                 vectors[v].source_id = calls[c].id => v = vector_dir_of(calls[c].id)

\* C8: when ingest_file or ingest_text has returned an item, the processed
\* record of its id is written and list() includes the id.
C8_ReturnedIsRecorded ==
    \A c \in Calls :
        calls[c].status = "returned"
        => /\ processed_name(calls[c].id) \in DOMAIN processed
           /\ processed[processed_name(calls[c].id)].fmt = "dict"
           /\ Lists(calls[c].id)

\* The .json files of the directory that parse to an object with a metadata
\* field, and the .json files that are not such records.
GoodRecords ==
    {n \in DOMAIN processed :
        endswith_json(n) /\ processed[n].fmt = "dict" /\ processed[n].has_key}
BadRecords ==
    {n \in DOMAIN processed :
        endswith_json(n) /\ (processed[n].fmt # "dict" \/ ~processed[n].has_key)}

\* C9: list() does not fail, returns the metadata of exactly the good records,
\* and every record it skipped as unreadable or malformed is logged.
C9_ListSkipsAndLogs ==
    listed.status # "-"
    => /\ listed.status = "returned"
       /\ listed.files = {processed[n].metadata : n \in GoodRecords}
       /\ \A n \in BadRecords :
             processed[n].fmt \in {"garbage", "unreadable", "list"} => n \in logged

\* C9, without the log: list() does not fail and returns the metadata of
\* exactly the good records.
C9_ListSkips ==
    listed.status # "-"
    => /\ listed.status = "returned"
       /\ listed.files = {processed[n].metadata : n \in GoodRecords}

\* C10: ingest_text raises when building or persisting the index fails, and an
\* item it returns has file_type "text" and a vector_dir.
C10_TextEmbeddingMandatory ==
    \A c \in Calls :
        calls[c].op = "text"
        => /\ calls[c].at \in {"vectorize", "persist"}
                => calls[c].status = "raised" /\ calls[c].metadata = NoMeta
           /\ calls[c].status = "returned"
                => /\ calls[c].metadata.file_type = "text"
                   /\ calls[c].metadata.vector_dir # NoName
                   /\ calls[c].at = "-"

C10_Witness ==
    \E c, d \in Calls :
        /\ calls[c].op = "text" /\ calls[c].at = "persist" /\ calls[c].status = "raised"
        /\ calls[d].op = "text" /\ calls[d].status = "returned"

\* ====================================================================
\* AgentMemory (src/src/models/memory.py)
\* ====================================================================
\* Records add_interaction may put in the log in one behaviour.
MaxLog == 2
\* Last reading of the clock.
MaxClock == 2

\* The (query, response, metadata) arguments of add_interaction.  The agent
\* passes no metadata (None); a caller may pass any dict, here one that holds a
\* tuple: {"tags": ("a", "b")}.
Interactions == {<<"q1", "r1", None>>, <<"q2", "r2", "tags_tuple">>}
\* The k arguments of get_relevant_history.
Ks == {-1, 0, 1, 2, 3}
\* The file AgentMemory is saved to and loaded from.
MemoryPaths == {"memory.json"}

\* MemoryItem(query=..., response=..., timestamp=..., metadata=...).  The
\* timestamp is datetime.now().isoformat(): the reading of the clock.
MemoryItem(query, response, timestamp, metadata) ==
    [query |-> query, response |-> response, timestamp |-> timestamp,
     metadata |-> metadata]

\* json.dump followed by json.load on a metadata value: a tuple comes back as
\* a list; None (null), strings and dicts of them come back as they were.
json_roundtrip(metadata) ==
    IF metadata = "tags_tuple" THEN "tags_list" ELSE metadata

\* item.dict() as json.load returns it from the file.
item_dict(item) == [item EXCEPT !.metadata = json_roundtrip(@)]

\* A memory file: fmt "list" holds the dicts of items; "garbage" does not
\* parse.  by and log say whether save_to_file wrote it, and from which log.
MemoryFile(fmt, items, by, log) == [fmt |-> fmt, items |-> items, by |-> by, log |-> log]

\* A dict without the required field query: MemoryItem(**item) raises
\* ValidationError on it.
MalformedDict == MemoryItem(None, "r0", 0, None)
ValidDict == MemoryItem("q0", "r0", 0, None)
is_valid_dict(d) == d.query # None /\ d.response # None

\* Files found on disk at the start: none, a file that holds a valid record
\* followed by a malformed one, or a file that is not JSON.
InitialMemoryFiles ==
    {EmptyDir,
     "memory.json" :> MemoryFile("list", <<ValidDict, MalformedDict>>, "other", <<>>),
     "memory.json" :> MemoryFile("garbage", <<>>, "other", <<>>)}

\* Variant of messages_of: the answer is put before the question.
messages_of_swapped(query, response) == <<<<"ai", response>>, <<"user", query>>>>

\* The two messages add_interaction puts in the buffer (lines 62-63).
messages_of(query, response) == <<<<"user", query>>, <<"ai", response>>>>

\* Variant of append_item: the new record is put in front.
insert_item(log, item) == <<item>> \o log

\* self.history.append(item), line 66
append_item(log, item) == Append(log, item)

\* The readings of the clock in n successive calls of datetime.now(), the
\* first not before `from`: every non-decreasing sequence.
Readings(n, from) ==
    {r \in [1..n -> from..MaxClock] : \A i \in 1..n : \A j \in i..n : r[i] <= r[j]}

\* How a call ended.
Answered(op, status, exc) == [NoAnswer EXCEPT !.op = op, !.status = status, !.exc = exc]

\* add_interaction, lines 54-73.
add_interaction(query, response, metadata, t) ==
    /\ Len(history) < MaxLog
    /\ t >= clock
    /\ clock' = t
    /\ chat_memory' = chat_memory \o messages_of(query, response)
    /\ history' = append_item(history, MemoryItem(query, response, t, metadata))
    /\ answer' = [Answered("add_interaction", "returned", "-") EXCEPT
                    !.args = <<query, response, metadata>>]
    /\ UNCHANGED memory_files
    /\ UNCHANGED <<ingestion_vars, vector_vars>>

\* clear, lines 79-82.
clear ==
    /\ chat_memory' = <<>>
    /\ history' = <<>>
    /\ answer' = Answered("clear", "returned", "-")
    /\ UNCHANGED <<memory_files, clock>>
    /\ UNCHANGED <<ingestion_vars, vector_vars>>

\* save_to_file, lines 84-88.  "ok": the file holds the dicts of the items;
\* "no_file": open() raised, nothing is written; "partial": json.dump raised
\* after open(file_path, 'w') truncated the file (a value json cannot encode,
\* a full disk).
MemorySaveOutcomes == {"ok", "no_file", "partial"}
save_to_file(file_path, outcome) ==
    /\ memory_files' =
          CASE outcome = "ok" ->
                 Write(memory_files, file_path,
                       MemoryFile("list", [i \in 1..Len(history) |-> item_dict(history[i])],
                                  "save_to_file", history))
            [] outcome = "no_file" -> memory_files
            [] outcome = "partial" ->
                 Write(memory_files, file_path, MemoryFile("garbage", <<>>, "save_to_file", history))
    /\ answer' = CASE outcome = "ok" -> Answered("save_to_file", "returned", "-")
                   [] outcome = "no_file" -> Answered("save_to_file", "raised", "OSError")
                   [] outcome = "partial" -> Answered("save_to_file", "raised", "TypeError")
    /\ UNCHANGED <<history, chat_memory, clock>>
    /\ UNCHANGED <<ingestion_vars, vector_vars>>

\* The timestamp of a record loaded by line 104: add_interaction is given the
\* query, the response and the metadata, and reads the clock itself.
load_timestamp(item, reading) == reading

\* The number of dicts of the list that the loop of lines 102-104 adds before
\* it ends: all of them, or those before the first one MemoryItem rejects.
RECURSIVE loaded_prefix(_)
loaded_prefix(items) ==
    IF items = <<>> \/ ~is_valid_dict(Head(items)) THEN 0
    ELSE 1 + loaded_prefix(Tail(items))

\* What a load leaves as the last call.  AgentMemory.load_from_file called by
\* the program: it returned, or raised exc.  ResearchAgent.load_memory
\* (research_agent.py lines 382-387): the exception of load_from_file is
\* caught, the call returns True or False.
LoadAnswer(caller, status, exc) ==
    IF caller = "AgentMemory" THEN Answered("load_from_file", status, exc)
    ELSE [Answered("load_memory", "returned", "-") EXCEPT !.result = <<status = "returned">>]

\* load_from_file, lines 90-104: clear(), then open and json.load, then one
\* add_interaction per dict.
load_from_file_for(caller, file_path) ==
    /\ IF file_path \notin DOMAIN memory_files
       THEN /\ history' = <<>> /\ chat_memory' = <<>>
            /\ answer' = LoadAnswer(caller, "raised", "FileNotFoundError")
            /\ UNCHANGED <<memory_files, clock>>
       ELSE IF memory_files[file_path].fmt # "list"
       THEN /\ history' = <<>> /\ chat_memory' = <<>>
            /\ answer' = LoadAnswer(caller, "raised", "JSONDecodeError")
            /\ UNCHANGED <<memory_files, clock>>
       ELSE LET items == memory_files[file_path].items
                n == loaded_prefix(items)
            IN  \E r \in Readings(n, clock) :
                  /\ history' = [i \in 1..n |->
                        MemoryItem(items[i].query, items[i].response,
                                   load_timestamp(items[i], r[i]), items[i].metadata)]
                  /\ chat_memory' = [i \in 1..(2 * n) |->
                        messages_of(items[(i + 1) \div 2].query,
                                    items[(i + 1) \div 2].response)[2 - (i % 2)]]
                  /\ clock' = IF n = 0 THEN clock ELSE r[n]
                  /\ answer' = IF n = Len(items)
                               THEN LoadAnswer(caller, "returned", "-")
                               ELSE LoadAnswer(caller, "raised", "ValidationError")
                  /\ UNCHANGED memory_files
    /\ UNCHANGED <<ingestion_vars, vector_vars>>

load_from_file(file_path) == load_from_file_for("AgentMemory", file_path)

\* self.history[-k:], line 113, as Python evaluates the slice: the start -k
\* counts from the end when it is negative and is clipped to the list; -0 is
\* 0, the start of the list.
slice_from(log, k) ==
    LET start == 0 - k
        first == IF start < 0
                 THEN (IF Len(log) + start > 0 THEN Len(log) + start ELSE 0)
                 ELSE (IF start < Len(log) THEN start ELSE Len(log))
    IN  SubSeq(log, first + 1, Len(log))

\* get_relevant_history, lines 106-113.
get_relevant_history(k) ==
    /\ answer' = [Answered("get_relevant_history", "returned", "-") EXCEPT
                    !.k = k, !.result = slice_from(history, k)]
    /\ UNCHANGED <<history, chat_memory, memory_files, clock>>
    /\ UNCHANGED <<ingestion_vars, vector_vars>>

\* The ingestion pipeline is not running.
ingestion_idle ==
    /\ calls = [c \in Calls |-> Idle]
    /\ raw = EmptyDir /\ processed = EmptyDir /\ vectors = EmptyDir
    /\ next_uuid = 0 /\ now = 0 /\ listed = NotListed /\ logged = {} /\ faults = 0

\* The vector tools are not in use.
vectors_idle ==
    /\ vector_handler = NoHandler
    /\ stores = EmptyDir
    /\ chunk_log = {}
    /\ agent_config = NoConfig
    /\ reply = NoReply

InitMemory ==
    /\ ingestion_idle
    /\ vectors_idle
    /\ memory_new
    /\ memory_files \in InitialMemoryFiles
    /\ clock = 0
    /\ answer = NoAnswer

NextMemory ==
    \/ \E a \in Interactions, t \in 0..MaxClock :
          add_interaction(a[1], a[2], a[3], t)
    \/ clear
    \/ \E file_path \in MemoryPaths, outcome \in MemorySaveOutcomes :
          save_to_file(file_path, outcome)
    \/ \E file_path \in MemoryPaths : load_from_file(file_path)
    \/ \E k \in Ks : get_relevant_history(k)

SpecMemory == InitMemory /\ [][NextMemory]_vars

\* ------------------------------------------------ properties of AgentMemory
\* The last call was load_from_file(file_path) and it returned.
Loaded(file_path) ==
    /\ answer.op = "load_from_file" /\ answer.status = "returned"
    /\ file_path \in DOMAIN memory_files

\* C11: when a file written by save_to_file is loaded, the log holds the
\* records that were saved, in their order, each with the query, response,
\* metadata and timestamp it had when saved.
C11_SaveLoadRoundTrip ==
    \A file_path \in MemoryPaths :
        (Loaded(file_path) /\ memory_files[file_path].by = "save_to_file")
        => history = memory_files[file_path].log

\* C12: a load_from_file that returns leaves in the log exactly the records of
\* the source, in the order of the source, whatever the log held before.
C12_LoadReplacesLog ==
    [][\A file_path \in MemoryPaths :
          (answer'.op = "load_from_file" /\ answer'.status = "returned")
          => /\ file_path \in DOMAIN memory_files
             /\ history' = memory_files[file_path].items]_vars

\* C12, leaving the timestamps aside: after a load_from_file that returns, the
\* log has one record per record of the source, in the order of the source,
\* with its query, response and metadata.
C12_LoadReplacesLogButTimestamps ==
    [][\A file_path \in MemoryPaths :
          (answer'.op = "load_from_file" /\ answer'.status = "returned")
          => /\ file_path \in DOMAIN memory_files
             /\ Len(history') = Len(memory_files[file_path].items)
             /\ \A i \in 1..Len(history') :
                   history'[i] = [memory_files[file_path].items[i] EXCEPT
                                     !.timestamp = history'[i].timestamp]]_vars

\* The last k items of the log, all of them when there are fewer than k.
LastK(log, k) ==
    SubSeq(log, (IF Len(log) > k THEN Len(log) - k ELSE 0) + 1, Len(log))

\* C13: for k >= 0, get_relevant_history returns the last k records of the log
\* in the order of the log, all records when there are fewer than k, and never
\* more than k records.
C13_RecentReturnsLastK ==
    (answer.op = "get_relevant_history" /\ answer.k >= 0)
    => /\ answer.result = LastK(history, answer.k)
       /\ Len(answer.result) <= answer.k

\* C14: a step of add_interaction leaves the log as it was, followed by one
\* record with the given query, response and metadata; a step of save_to_file
\* or get_relevant_history leaves the log as it was.
C14_AppendOnly ==
    [][/\ answer'.op = "add_interaction"
          => /\ Len(history') = Len(history) + 1
             /\ SubSeq(history', 1, Len(history)) = history
             /\ history'[Len(history')].query = answer'.args[1]
             /\ history'[Len(history')].response = answer'.args[2]
             /\ history'[Len(history')].metadata = answer'.args[3]
       /\ answer'.op \in {"save_to_file", "get_relevant_history"}
          => history' = history]_vars

C14_Witness ==
    /\ answer.op = "add_interaction"
    /\ Len(history) = 2
    /\ history[1].query # history[2].query
    /\ "memory.json" \in DOMAIN memory_files
    /\ memory_files["memory.json"].by = "save_to_file"

\* ====================================================================
\* VectorHandler and the vector tools (src/src/tools/vector_tools.py)
\* ====================================================================
\* RecursiveCharacterTextSplitter(chunk_size=1000, chunk_overlap=200,
\* length_function=len), lines 17-21.
chunk_size == 1000
chunk_overlap == 200

\* A text is the sequence of its tokens: a space " ", or a word (a run of
\* characters without whitespace) named by a string, whose number of
\* characters is WordLen.  The texts hold no line breaks, so that " " is the
\* first separator of the splitter found in them.
WordLen(token) ==
    CASE token = " "     -> 1
      [] token = "alpha" -> 5
      [] token = "beta"  -> 4
      [] token = "Y150"  -> 150
      [] token = "W500"  -> 500
      [] token = "X500"  -> 500

\* len(text)
RECURSIVE length_function(_)
length_function(text) ==
    IF text = <<>> THEN 0 ELSE WordLen(Head(text)) + length_function(Tail(text))

Alpha == <<"alpha">>
Blank == <<" ", " ">>
EmptyText == <<>>
Padded == <<" ", "beta", " ">>
Overlapping == <<"W500", " ", "Y150", " ", "X500">>

\* The lists of texts handed to vectorize_and_save.
TextLists == {<<Alpha, Blank>>, <<Blank, EmptyText>>, <<Padded>>, <<Overlapping>>}
\* The queries and the k handed to search_in_vectors.
Queries == {Alpha, Blank, Padded, Overlapping}
SearchKs == {-1, 0, 1, 4}
\* Directories: "idx" is where vectorize_and_save writes; "junk" exists and
\* holds no index; "nowhere" does not exist.
SaveDirs == {"idx"}
VectorDirs == {"idx", "junk", "nowhere"}

\* An index directory: kind "index" holds index.faiss and index.pkl with the
\* documents docs; kind "other" holds no index that load_local recognises.
\* texts are the texts the index was built from.
IndexDir(kind, docs, texts) == [kind |-> kind, docs |-> docs, texts |-> texts]
InitialStores == "junk" :> IndexDir("other", <<>>, <<>>)

\* _split_text_with_regex(text, " ", keep_separator=True): the text is cut in
\* front of every space; the empty pieces are dropped.  piece is the piece
\* being read.  (A text without a space is cut into its characters, which
\* _merge_splits joins again: for a word of at most chunk_size characters the
\* outcome is that of the single piece here.)
RECURSIVE split_text_with_regex(_, _)
split_text_with_regex(text, piece) ==
    IF text = <<>> THEN (IF piece = <<>> THEN <<>> ELSE <<piece>>)
    ELSE IF Head(text) = " "
         THEN (IF piece = <<>> THEN <<>> ELSE <<piece>>)
              \o split_text_with_regex(Tail(text), <<" ">>)
         ELSE split_text_with_regex(Tail(text), Append(piece, Head(text)))

\* "".join(docs)
RECURSIVE join(_)
join(docs) == IF docs = <<>> THEN <<>> ELSE Head(docs) \o join(Tail(docs))

\* str.strip()
RECURSIVE lstrip(_)
lstrip(text) ==
    IF text # <<>> /\ Head(text) = " " THEN lstrip(Tail(text)) ELSE text
RECURSIVE rstrip(_)
rstrip(text) ==
    IF text # <<>> /\ text[Len(text)] = " "
    THEN rstrip(SubSeq(text, 1, Len(text) - 1)) ELSE text
strip(text) == rstrip(lstrip(text))

\* _join_docs: the pieces joined and stripped; None (no chunk) when nothing
\* is left.
join_docs(current_doc) ==
    IF strip(join(current_doc)) = <<>> THEN <<>> ELSE <<strip(join(current_doc))>>

\* _merge_splits, the while loop: pieces are dropped from the front of
\* current_doc until what is left is no longer than chunk_overlap and the next
\* piece fits.
RECURSIVE drop_overlap(_, _)
drop_overlap(current_doc, next_len) ==
    LET total == length_function(join(current_doc))
    IN  IF total > chunk_overlap \/ (total + next_len > chunk_size /\ total > 0)
        THEN drop_overlap(Tail(current_doc), next_len)
        ELSE current_doc

\* _merge_splits, the for loop: the chunks made so far and the pieces of the
\* chunk being filled.
RECURSIVE merge_splits(_, _, _)
merge_splits(splits, current_doc, docs) ==
    IF splits = <<>> THEN [docs |-> docs, current_doc |-> current_doc]
    ELSE LET d == Head(splits)
             total == length_function(join(current_doc))
         IN  IF total + length_function(d) > chunk_size /\ current_doc # <<>>
             THEN merge_splits(Tail(splits),
                               Append(drop_overlap(current_doc, length_function(d)), d),
                               docs \o join_docs(current_doc))
             ELSE merge_splits(Tail(splits), Append(current_doc, d), docs)

\* Variant of fresh_current_doc: the splitter goes on with the pieces the
\* call before left in current_doc.
kept_current_doc(leftover) == leftover

\* current_doc = [] at the start of _merge_splits: a local of the call.
fresh_current_doc(leftover) == <<>>

\* text_splitter.split_text(text): the chunks, and the pieces left in
\* current_doc when the call ends.
split_text(text, leftover) ==
    LET m == merge_splits(split_text_with_regex(text, <<>>), fresh_current_doc(leftover), <<>>)
    IN  [chunks |-> m.docs \o join_docs(m.current_doc), leftover |-> m.current_doc]

\* text_splitter.create_documents(texts), line 27: the chunks of the texts one
\* after the other, the log of the split_text calls made, and the pieces the
\* last call left.
RECURSIVE split_documents(_, _)
split_documents(texts, leftover) ==
    IF texts = <<>> THEN [documents |-> <<>>, log |-> {}, leftover |-> leftover]
    ELSE LET first == split_text(Head(texts), leftover)
             rest == split_documents(Tail(texts), first.leftover)
         IN  [documents |-> first.chunks \o rest.documents,
              log |-> {<<Head(texts), first.chunks>>} \cup rest.log,
              leftover |-> rest.leftover]

\* get_vector_handler, lines 58-62: the handler is made at the first call.
get_vector_handler ==
    IF vector_handler.created THEN vector_handler
    ELSE [created |-> TRUE, chunk_size |-> chunk_size,
          chunk_overlap |-> chunk_overlap, leftover |-> <<>>]

\* Variant of from_documents: the segments embedded before the failing one
\* make the index.
from_documents_partial(documents, fail_at) ==
    IF documents = <<>> THEN [raises |-> TRUE, exc |-> "IndexError", docs |-> <<>>]
    ELSE IF fail_at > 1 THEN [raises |-> FALSE, exc |-> "-", docs |-> SubSeq(documents, 1, fail_at - 1)]
    ELSE IF fail_at = 1 THEN [raises |-> TRUE, exc |-> "EmbeddingError", docs |-> <<>>]
    ELSE [raises |-> FALSE, exc |-> "-", docs |-> documents]

\* FAISS.from_documents(documents, embedding_model), line 28: all documents
\* are embedded, then the index is built.  fail_at is the document at which the
\* embedding model fails (0: it does not fail).  Without documents there is no
\* first embedding to take the dimension from: IndexError.
from_documents(documents, fail_at) ==
    IF documents = <<>> THEN [raises |-> TRUE, exc |-> "IndexError", docs |-> <<>>]
    ELSE IF fail_at > 0 THEN [raises |-> TRUE, exc |-> "EmbeddingError", docs |-> <<>>]
    ELSE [raises |-> FALSE, exc |-> "-", docs |-> documents]

Replied(op, status, exc) == [NoReply EXCEPT !.op = op, !.status = status, !.exc = exc]

\* vectorize_and_save(texts, save_dir), lines 65-71: vectorize_texts, then
\* save_vector_store.  outcome is that of save_vector_store, as in
\* PersistOutcomes.
vectorize_and_save(texts, save_dir, fail_at, outcome) ==
    /\ LET handler == get_vector_handler
           split == split_documents(texts, handler.leftover)
           vector_store == from_documents(split.documents, fail_at)
           call == [Replied("vectorize_and_save", "raised", "-") EXCEPT
                       !.texts = texts, !.dir = save_dir, !.fail_at = fail_at,
                       !.resplit = \E e \in chunk_log : \E i \in 1..Len(texts) : e[1] = texts[i]]
       IN  /\ fail_at <= Len(split.documents)
           /\ vector_handler' = [handler EXCEPT !.leftover = split.leftover]
           /\ chunk_log' = chunk_log \cup split.log
           /\ IF vector_store.raises
              THEN /\ outcome = "ok"
                   /\ reply' = [call EXCEPT !.exc = vector_store.exc]
                   /\ UNCHANGED stores
              ELSE /\ stores' =
                        CASE outcome = "ok" ->
                               Write(stores, save_dir, IndexDir("index", vector_store.docs, texts))
                          [] outcome = "no_dir" -> stores
                          [] outcome = "no_index" ->
                               Write(stores, save_dir, IndexDir("other", <<>>, <<>>))
                   /\ reply' = IF outcome = "ok"
                               THEN [call EXCEPT !.status = "returned"]
                               ELSE [call EXCEPT !.exc = "OSError"]
    /\ UNCHANGED <<ingestion_vars, memory_vars, agent_config>>

\* Variant of load_local: a directory without an index gives an empty store.
load_local_or_empty(dirs, directory) ==
    IF directory \notin DOMAIN dirs THEN [raises |-> TRUE, exc |-> "ValueError", docs |-> <<>>]
    ELSE IF dirs[directory].kind # "index" THEN [raises |-> FALSE, exc |-> "-", docs |-> <<>>]
    ELSE [raises |-> FALSE, exc |-> "-", docs |-> dirs[directory].docs]

\* load_vector_store, lines 44-46: ValueError when the directory does not
\* exist; FAISS.load_local raises when it finds no index.faiss / index.pkl it
\* can read.
load_local(dirs, directory) ==
    IF directory \notin DOMAIN dirs THEN [raises |-> TRUE, exc |-> "ValueError", docs |-> <<>>]
    ELSE IF dirs[directory].kind # "index" THEN [raises |-> TRUE, exc |-> "RuntimeError", docs |-> <<>>]
    ELSE [raises |-> FALSE, exc |-> "-", docs |-> dirs[directory].docs]

\* VectorHandler.load_vector_store(directory) called on its own.
load_vector_store(directory) ==
    /\ LET vector_store == load_local(stores, directory)
           call == [Replied("load_vector_store", "raised", vector_store.exc) EXCEPT !.dir = directory]
       IN  reply' = IF vector_store.raises THEN call
                    ELSE [call EXCEPT !.status = "returned", !.value = vector_store.docs]
    /\ vector_handler' = get_vector_handler
    /\ UNCHANGED <<stores, chunk_log>>
    /\ UNCHANGED <<ingestion_vars, memory_vars, agent_config>>

\* The orders in which the index can return n of its documents for a query:
\* the documents whose text is the query come first (their distance is 0);
\* how the embedding model places the other documents is not modelled, any
\* order of them is possible.  A ranking is a sequence of positions in docs.
Rankings(docs, query, n) ==
    {r \in [1..n -> 1..Len(docs)] :
        /\ \A i, j \in 1..n : i # j => r[i] # r[j]
        /\ \A i \in 1..n : \A j \in 1..Len(docs) :
              (docs[j] = query /\ docs[r[i]] # query) => \E h \in 1..(i - 1) : r[h] = j}

\* Variant of similarity_search_with_score: asking for more documents than
\* the index holds is an error.
similarity_search_strict(docs, query, k) ==
    IF k <= 0 \/ k > Len(docs) THEN {[raises |-> TRUE, exc |-> "AssertionError", value |-> <<>>]}
    ELSE {[raises |-> FALSE, exc |-> "-", value |-> [i \in 1..k |-> docs[r[i]]]] :
             r \in Rankings(docs, query, k)}

\* vector_store.similarity_search_with_score(query, k=k), line 52, and the
\* page_content of its results, line 53.  For k above the number of documents
\* the index pads its answer and the padding is dropped.  k is handed on as it
\* is: what k <= 0 does is left to the installed faiss, which either refuses it
\* (an assertion, or an array of negative size) or, for k = 0, finds nothing.
similarity_search_with_score(docs, query, k) ==
    IF k < 0 THEN {[raises |-> TRUE, exc |-> "ValueError", value |-> <<>>]}
    ELSE IF k = 0 THEN {[raises |-> TRUE, exc |-> "AssertionError", value |-> <<>>],
                        [raises |-> FALSE, exc |-> "-", value |-> <<>>]}
    ELSE LET n == IF k < Len(docs) THEN k ELSE Len(docs)
         IN  {[raises |-> FALSE, exc |-> "-", value |-> [i \in 1..n |-> docs[r[i]]]] :
                 r \in Rankings(docs, query, n)}

\* search_in_vectors(query, vector_dir, k), lines 73-79.
search_in_vectors(query, vector_dir, k) ==
    /\ LET vector_store == load_local(stores, vector_dir)
           call == [Replied("search_in_vectors", "raised", vector_store.exc) EXCEPT
                       !.query = query, !.dir = vector_dir, !.k = k]
       IN  IF vector_store.raises
           THEN reply' = call
           ELSE \E results \in similarity_search_with_score(vector_store.docs, query, k) :
                   reply' = IF results.raises
                            THEN [call EXCEPT !.exc = results.exc, !.index_queried = TRUE]
                            ELSE [call EXCEPT !.status = "returned", !.exc = "-",
                                              !.index_queried = TRUE, !.value = results.value]
    /\ vector_handler' = get_vector_handler
    /\ UNCHANGED <<stores, chunk_log>>
    /\ UNCHANGED <<ingestion_vars, memory_vars, agent_config>>

memory_idle ==
    /\ memory_new
    /\ memory_files = EmptyDir
    /\ clock = 0
    /\ answer = NoAnswer

InitVectors ==
    /\ ingestion_idle
    /\ memory_idle
    /\ vector_handler = NoHandler
    /\ stores = InitialStores
    /\ chunk_log = {}
    /\ agent_config = NoConfig
    /\ reply = NoReply

NextVectors ==
    \/ \E texts \in TextLists, save_dir \in SaveDirs, fail_at \in 0..2,
          outcome \in PersistOutcomes :
          vectorize_and_save(texts, save_dir, fail_at, outcome)
    \/ \E directory \in VectorDirs : load_vector_store(directory)
    \/ \E query \in Queries, vector_dir \in VectorDirs, k \in SearchKs :
          search_in_vectors(query, vector_dir, k)

SpecVectors == InitVectors /\ [][NextVectors]_vars

\* ---------------------------------------------- properties of the vector tools
\* The directory the last call was given holds an index load_local can read.
HoldsIndex(directory) ==
    directory \in DOMAIN stores /\ stores[directory].kind = "index"

\* C15: load_vector_store and search_in_vectors on a directory that does not
\* exist, or that holds no index, raise; they return nothing, and so no empty
\* list of results.
C15_NoIndexIsAnError ==
    (reply.op \in {"load_vector_store", "search_in_vectors"} /\ ~HoldsIndex(reply.dir))
    => /\ reply.status = "raised"
       /\ reply.exc \in {"ValueError", "RuntimeError"}
       /\ ~reply.index_queried

C15_Witness ==
    /\ reply.op = "search_in_vectors"
    /\ reply.dir = "junk" /\ reply.dir \in DOMAIN stores
    /\ reply.k = 1
    /\ HoldsIndex("idx")

\* C16: in a step of vectorize_and_save in which the embedding model fails on
\* a segment, the call raises, returns no index, and the directories are left
\* as they were.
C16_BuildAllOrNothing ==
    [][(reply'.op = "vectorize_and_save" /\ reply'.fail_at > 0)
       => /\ reply'.status = "raised"
          /\ reply'.exc = "EmbeddingError"
          /\ stores' = stores]_vars

C16_Witness ==
    /\ reply.op = "vectorize_and_save" /\ reply.fail_at = 2
    /\ reply.texts = <<Overlapping>>
    /\ HoldsIndex("idx") /\ stores["idx"].texts = <<Padded>>

\* C17: search_in_vectors with k <= 0 raises, and does so before the index is
\* queried.
C17_NonPositiveKRejected ==
    (reply.op = "search_in_vectors" /\ reply.k <= 0)
    => /\ reply.status = "raised"
       /\ ~reply.index_queried

\* C18: search_in_vectors with k above the number n of segments of the index
\* returns n results, which are the segments of the index, each once.
C18_LargeKReturnsAll ==
    (reply.op = "search_in_vectors" /\ HoldsIndex(reply.dir)
        /\ reply.k > Len(stores[reply.dir].docs))
    => /\ reply.status = "returned"
       /\ Len(reply.value) = Len(stores[reply.dir].docs)
       /\ \E r \in [1..Len(reply.value) -> 1..Len(reply.value)] :
             /\ \A i, j \in 1..Len(reply.value) : i # j => r[i] # r[j]
             /\ \A i \in 1..Len(reply.value) : reply.value[i] = stores[reply.dir].docs[r[i]]

C18_Witness ==
    /\ reply.op = "search_in_vectors" /\ HoldsIndex(reply.dir)
    /\ Len(stores[reply.dir].docs) = 2
    /\ reply.k = 4
    /\ Len(reply.value) = 2

\* C19: a search with k = 1 whose query is one of the segments the index of
\* the directory was built from returns that segment.
C19_SelfRecall ==
    (reply.op = "search_in_vectors" /\ HoldsIndex(reply.dir) /\ reply.k = 1
        /\ \E i \in 1..Len(stores[reply.dir].texts) : stores[reply.dir].texts[i] = reply.query)
    => /\ reply.status = "returned"
       /\ reply.value = <<reply.query>>

C21_ShortTextOneChunk ==
    \A e \in chunk_log :
        length_function(e[1]) < chunk_size => e[2] = <<e[1]>>

C21_AsOnlyNonBlankStripped ==
    \A e \in chunk_log :
        (length_function(e[1]) < chunk_size /\ strip(e[1]) = e[1] /\ e[1] # <<>>)
            => e[2] = <<e[1]>>

\* The longest end of chunk a that is also the beginning of chunk b.
overlap_of(a, b) ==
    LET fits == {n \in 0..Len(a) :
                    n <= Len(b) /\ SubSeq(a, Len(a) - n + 1, Len(a)) = SubSeq(b, 1, n)}
    IN  CHOOSE n \in fits : \A m \in fits : m <= n

RECURSIVE without_overlaps(_)
without_overlaps(chunks) ==
    IF Len(chunks) = 0 THEN <<>>
    ELSE IF Len(chunks) = 1 THEN chunks[1]
    ELSE LET n    == Len(chunks)
             last == chunks[n]
             o    == overlap_of(chunks[n - 1], last)
         IN  without_overlaps(SubSeq(chunks, 1, n - 1)) \o SubSeq(last, o + 1, Len(last))

\* C22: the chunks of a text, put together in order with the part each one
\* shares with its predecessor removed, are the text again: no character is
\* lost and none is duplicated.
C22_ChunksCoverText ==
    \A e \in chunk_log : without_overlaps(e[2]) = e[1]

\* --------------------------------------------------------------- configuration
\* src/src/config.py: the chunk settings are read from the environment when
\* the module is imported (lines 38-39) and kept by AgentConfig (lines 52-71).
\* A setting of the environment is a string, or Unset.
Unset == "unset"

EnvChunkSizes == {Unset, "500", "0", "-5", "abc"}

EnvChunkOverlaps == {Unset, "500", "-1"}

\* os.getenv(name, default), lines 38-39.
getenv(value, default) == IF value = Unset THEN default ELSE value

\* int(string), lines 38-39: the integer an optionally signed decimal literal
\* writes; any other string raises ValueError.
is_int_literal(string) == string \in {"1000", "200", "500", "0", "-5", "-1"}

int(string) ==
    CASE string = "1000" -> 1000
      [] string = "200"  -> 200
      [] string = "500"  -> 500
      [] string = "0"    -> 0
      [] string = "-5"   -> 0 - 5
      [] string = "-1"   -> 0 - 1

\* The import of config.py, lines 38-39: CHUNK_SIZE, then CHUNK_OVERLAP; a
\* setting that is no integer literal ends the import with ValueError.
import_config(env_chunk_size, env_chunk_overlap) ==
    /\ agent_config.module = "unloaded"
    /\ LET size    == getenv(env_chunk_size, "1000")
           overlap == getenv(env_chunk_overlap, "200")
       IN  agent_config' =
             IF ~is_int_literal(size) \/ ~is_int_literal(overlap)
             THEN [agent_config EXCEPT !.module = "raised", !.exc = "ValueError"]
             ELSE [agent_config EXCEPT !.module = "loaded",
                                       !.CHUNK_SIZE = int(size),
                                       !.CHUNK_OVERLAP = int(overlap)]
    /\ UNCHANGED <<ingestion_vars, memory_vars, vector_handler, stores, chunk_log, reply>>

\* An argument of AgentConfig(...): <<>> when it is left to its default, or
\* the value given.
ArgChunkSizes == {<<>>, <<0>>, <<100>>}

ArgChunkOverlaps == {<<>>, <<100>>}

argument(given, default) == IF given = <<>> THEN default ELSE given[1]

\* AgentConfig.__init__, lines 52-71: the arguments are stored as they come
\* (lines 70-71); the defaults are the settings of the module.
AgentConfig(chunk_size_arg, chunk_overlap_arg) ==
    /\ agent_config.module = "loaded"
    /\ agent_config' = [agent_config EXCEPT
            !.instance = TRUE,
            !.chunk_size = argument(chunk_size_arg, agent_config.CHUNK_SIZE),
            !.chunk_overlap = argument(chunk_overlap_arg, agent_config.CHUNK_OVERLAP)]
    /\ UNCHANGED <<ingestion_vars, memory_vars, vector_handler, stores, chunk_log, reply>>

ConfigTexts == {<<Overlapping>>, <<Alpha, Blank>>}

InitConfig == InitVectors

NextConfig ==
    \/ \E env_chunk_size \in EnvChunkSizes, env_chunk_overlap \in EnvChunkOverlaps :
          import_config(env_chunk_size, env_chunk_overlap)
    \/ \E chunk_size_arg \in ArgChunkSizes, chunk_overlap_arg \in ArgChunkOverlaps :
          AgentConfig(chunk_size_arg, chunk_overlap_arg)
    \/ \E texts \in ConfigTexts, save_dir \in SaveDirs, fail_at \in 0..1,
          outcome \in PersistOutcomes :
          vectorize_and_save(texts, save_dir, fail_at, outcome)

SpecConfig == InitConfig /\ [][NextConfig]_vars

\* ------------------------------------------- properties of the configuration
\* Chunk parameters a splitter can work with.
valid_chunk_parameters(size, overlap) == size >= 1 /\ overlap >= 1 /\ overlap < size

\* C23: chunk parameters that are no positive integers, or whose overlap is
\* not below the chunk size, are rejected when they are configured: no loaded
\* configuration and no AgentConfig holds them, and no handler splits by them.
C23_InvalidChunkParametersRejected ==
    /\ agent_config.module = "loaded"
          => valid_chunk_parameters(agent_config.CHUNK_SIZE, agent_config.CHUNK_OVERLAP)
    /\ agent_config.instance
          => valid_chunk_parameters(agent_config.chunk_size, agent_config.chunk_overlap)
    /\ vector_handler.created
          => valid_chunk_parameters(vector_handler.chunk_size, vector_handler.chunk_overlap)

\* What does hold: the handler splits by the sizes written in vector_tools.py,
\* whatever the configuration says.
C23_HandlerIgnoresConfiguration ==
    vector_handler.created
        => /\ vector_handler.chunk_size = chunk_size
           /\ vector_handler.chunk_overlap = chunk_overlap

\* ------------------------------------------ more properties of the ingestion
\* The order of the steps of ingest_file: where a call is, and where it may be
\* next ("done": it has returned or raised).
StepOrder ==
    {<<"idle", "copy">>, <<"idle", "done">>, <<"copy", "read">>, <<"copy", "done">>,
     <<"read", "save">>, <<"read", "done">>, <<"save", "vectorize">>, <<"save", "done">>,
     <<"vectorize", "persist">>, <<"vectorize", "done">>, <<"persist", "done">>}

ArtefactsInOrder ==
    \A c \in Calls :
        (calls[c].op = "file" /\ calls[c].id # NoId)
        => /\ processed_name(calls[c].id) \in DOMAIN processed
                => calls[c].raw_name \in DOMAIN raw
           /\ vector_dir_of(calls[c].id) \in DOMAIN vectors
                => processed_name(calls[c].id) \in DOMAIN processed

\* C24: an ingest_file call takes its steps in order (copy, read, record,
\* embedding, index), none skipped and none repeated, and at every moment the
\* processed record of its id is there only if its raw copy is, and the vector
\* directory of its id only if its processed record is.
C24_StepsInOrder ==
    /\ []ArtefactsInOrder
    /\ [][\A c \in Calls :
            ((calls[c].op = "file" \/ calls'[c].op = "file") /\ calls'[c].pc # calls[c].pc)
            => <<calls[c].pc, calls'[c].pc>> \in StepOrder]_vars

C24_Witness ==
    \E c \in Calls :
        /\ calls[c].op = "file" /\ calls[c].at = "persist"
        /\ processed_name(calls[c].id) \in DOMAIN processed
        /\ calls[c].raw_name \in DOMAIN raw

\* C25: when the content the reader gave ingest_file is neither a string nor
\* a list of strings only, the call returns from the record step: nothing is
\* chunked or embedded, no vector directory of the id is made and the item
\* returned has no vector_dir; when it is a string or a non-empty list of
\* strings, the call goes on to chunking and embedding.
C25_OnlyTextIsEmbedded ==
    [][\A c \in Calls :
        (calls[c].op = "file" /\ calls[c].pc = "save" /\ calls'[c] # calls[c])
        => LET content == calls[c].content
               string  == content.kind = "str"
               strings == content.kind = "list" /\ content.allStr
           IN  /\ (~string /\ ~strings)
                    => /\ calls'[c].pc = "done" /\ calls'[c].status = "returned"
                       /\ calls'[c].metadata.vector_dir = NoName
                       /\ calls'[c].ndocs = 0
                       /\ vector_dir_of(calls[c].id) \notin DOMAIN vectors'
               /\ (string \/ (strings /\ content.texts # <<>>))
                    => calls'[c].pc = "vectorize"]_vars

C25_Witness ==
    \E c, d \in Calls :
        /\ calls[c].op = "file" /\ calls[c].status = "returned"
        /\ calls[c].metadata.file_type = "csv" /\ calls[c].metadata.vector_dir = NoName
        /\ calls[d].op = "file" /\ calls[d].pc = "vectorize"
        /\ calls[d].content.kind = "list" /\ calls[d].content.texts # <<>>

\* C26: an ingest_file or ingest_text call that raised left no catalog entry:
\* list() has no item with the id the call drew.
C26_FailedIngestionNotListed ==
    \A c \in Calls :
        (calls[c].status = "raised" /\ calls[c].id # NoId) => ~Lists(calls[c].id)

\* What does hold: a call that raised before its record step is not listed.
C26_FailedBeforeRecordNotListed ==
    \A c \in Calls :
        (calls[c].status = "raised" /\ calls[c].id # NoId /\ calls[c].at \in {"copy", "read"})
        => ~Lists(calls[c].id)

\* C27: the entry list() gives for an item is the metadata its ingest call
\* returned, field for field, vector_dir included.
C27_ListedEqualsReturned ==
    \A c \in Calls :
        (calls[c].status = "returned" /\ Lists(calls[c].id))
        => \A m \in ListNow : m.id = calls[c].id => m = calls[c].metadata

\* What does hold: the entry differs from the metadata returned in vector_dir
\* at most.
C27_ListedEqualsReturnedButVectorDir ==
    \A c \in Calls :
        (calls[c].status = "returned" /\ Lists(calls[c].id))
        => \A m \in ListNow :
              m.id = calls[c].id => m = [calls[c].metadata EXCEPT !.vector_dir = NoName]

\* ------------------------------------------------------------- ResearchAgent
\* src/src/agents/research_agent.py: the agent keeps one AgentMemory (lines
\* 44-47); research and chat run an executor, parse its output and record the
\* exchange; save_memory, load_memory and clear_memory pass on to the memory.
\* The executor and the parser are libraries: what is modelled of an output is
\* its text and the field the parser reads from it, None when the text does
\* not parse.
AgentOutputs ==
    {[raw |-> "json_r1", parsed |-> "r1"], [raw |-> "plain", parsed |-> None]}

Messages == {"q1"}

ExecutorOutcomes == {"completes", "raises"}

\* add_interaction (memory.py lines 54-73) on the two stores of a memory.
interaction_added(memory, query, response, t) ==
    [history     |-> append_item(memory.history, MemoryItem(query, response, t, None)),
     chat_memory |-> memory.chat_memory \o messages_of(query, response)]

\* Variant of try_block: the exchange is recorded before the output is parsed.
try_block_records_first(memory, query, output, t) ==
    [raises |-> output.parsed = None,
     response |-> IF output.parsed = None THEN output.raw ELSE output.parsed,
     memory |-> interaction_added(memory, query,
                    IF output.parsed = None THEN output.raw ELSE output.parsed, t)]

\* The try block of research (lines 238-248) and chat (288-298): parse, which
\* raises on a text that does not parse, then add_interaction with the field
\* parsed (summary / response).
try_block(memory, query, output, t) ==
    IF output.parsed = None
    THEN [raises |-> TRUE, response |-> None, memory |-> memory]
    ELSE [raises |-> FALSE, response |-> output.parsed,
          memory |-> interaction_added(memory, query, output.parsed, t)]

\* The except block of research (lines 249-265) and chat (299-314): the answer
\* is the text of the output as it is, and add_interaction records it.
except_block(memory, query, output, t) ==
    [raises |-> FALSE, response |-> output.raw,
     memory |-> interaction_added(memory, query, output.raw, t)]

\* research and chat from the call of the executor on (lines 233-265 and
\* 283-314).  An exception of the executor leaves the call before the try.
agent_call(op, query, output, executor, t) ==
    /\ Len(history) < MaxLog
    /\ t >= clock
    /\ IF executor = "raises"
       THEN /\ answer' = Answered(op, "raised", "AgentError")
            /\ UNCHANGED <<history, chat_memory, clock>>
       ELSE LET memory == [history |-> history, chat_memory |-> chat_memory]
                tried  == try_block(memory, query, output, t)
                final  == IF tried.raises
                          THEN except_block(tried.memory, query, output, t)
                          ELSE tried
            IN  /\ history' = final.memory.history
                /\ chat_memory' = final.memory.chat_memory
                /\ clock' = t
                /\ answer' = [Answered(op, "returned", "-") EXCEPT
                                !.args = <<query, final.response>>,
                                !.result = <<IF tried.raises THEN "fallback" ELSE "parsed">>]
    /\ UNCHANGED memory_files
    /\ UNCHANGED <<ingestion_vars, vector_vars>>

research(query, output, executor, t) == agent_call("research", query, output, executor, t)

chat(message, output, executor, t) == agent_call("chat", message, output, executor, t)

\* save_memory, lines 361-370.
save_memory(file_path, outcome) == save_to_file(file_path, outcome)

\* load_memory, lines 372-387: False when the file is not there; else
\* load_from_file, True when it returned and False when it raised.
load_memory(file_path) ==
    IF file_path \notin DOMAIN memory_files
    THEN /\ answer' = LoadAnswer("ResearchAgent", "raised", "-")
         /\ UNCHANGED <<history, chat_memory, memory_files, clock>>
         /\ UNCHANGED <<ingestion_vars, vector_vars>>
    ELSE load_from_file_for("ResearchAgent", file_path)

\* clear_memory, lines 389-391.
clear_memory == clear

InitAgent == InitMemory

NextAgent ==
    \/ \E query \in Messages, output \in AgentOutputs, executor \in ExecutorOutcomes,
          t \in 0..MaxClock : research(query, output, executor, t)
    \/ \E message \in Messages, output \in AgentOutputs, executor \in ExecutorOutcomes,
          t \in 0..MaxClock : chat(message, output, executor, t)
    \/ \E file_path \in MemoryPaths, outcome \in MemorySaveOutcomes :
          save_memory(file_path, outcome)
    \/ \E file_path \in MemoryPaths : load_memory(file_path)
    \/ clear_memory

SpecAgent == InitAgent /\ [][NextAgent]_vars

\* ------------------------------------------------ more properties of the memory
\* C28: a load that fails leaves the log as it was: load_from_file that raised
\* and load_memory that returned False have changed neither the history nor
\* the chat buffer.
C28_FailedLoadLeavesLog ==
    [][(\/ answer'.op = "load_from_file" /\ answer'.status = "raised"
        \/ answer'.op = "load_memory" /\ answer'.result = <<FALSE>>)
       => /\ history' = history
          /\ chat_memory' = chat_memory]_vars

\* What does hold of load_memory: with no file at the path it returns False
\* and the memory is as it was.
C28_MissingFileLeavesLog ==
    [][(answer'.op = "load_memory" /\ MemoryPaths \cap DOMAIN memory_files = {})
       => /\ answer'.result = <<FALSE>>
          /\ history' = history
          /\ chat_memory' = chat_memory]_vars

\* C29: the chat buffer holds two messages for each record of the history, in
\* the order of the records: the query as the user's message, then the
\* response as the assistant's; after clear both are empty.
C29_BufferFollowsHistory ==
    /\ Len(chat_memory) = 2 * Len(history)
    /\ \A i \in 1..Len(history) :
          /\ chat_memory[2 * i - 1] = <<"user", history[i].query>>
          /\ chat_memory[2 * i] = <<"ai", history[i].response>>
    /\ answer.op = "clear" => (history = <<>> /\ chat_memory = <<>>)

C29_Witness ==
    /\ answer.op = "load_from_file" /\ answer.status = "returned"
    /\ Len(history) = 2
    /\ Len(chat_memory) = 4
    /\ history[1].query # history[2].query

\* C30: a chat or research call whose executor completed has appended exactly
\* one record to the history, the one of the call's query and of the response
\* it returned, whether the output parsed or not.
C30_OneRecordPerCall ==
    [][(/\ answer'.op \in {"chat", "research"} /\ answer'.status = "returned"
        /\ <<history, answer>>' # <<history, answer>>)
       => /\ Len(history') = Len(history) + 1
          /\ SubSeq(history', 1, Len(history)) = history
          /\ history'[Len(history')].query = answer'.args[1]
          /\ history'[Len(history')].response = answer'.args[2]]_vars

C30_Witness ==
    /\ answer.op = "chat" /\ answer.result = <<"fallback">>
    /\ Len(history) = 2
    /\ history[1].response = "r1"
    /\ history[2].response = "plain"

====
